---- MODULE Spec2Model ----
(***************************************************************************)
(* Model of the MCP chatbot client, src/src/client/mcp_chatbot.py:         *)
(* McpChatBot (capability registry, conversation loop, resource and prompt *)
(* paths) and ClientApplication.run (startup, chat loop, shutdown).        *)
(*                                                                         *)
(* A provider session is identified by the index of its provider in the    *)
(* configuration (one ClientSession is created per configured provider).   *)
(* A name (tool name, prompt name, resource URI) is a sequence of tokens:  *)
(* "papers://a" is <<"papers://", "a">>, the tool name "X" is <<"X">>, so  *)
(* str.startswith is a real prefix test.                                   *)
(***************************************************************************)
EXTENDS Integers, Sequences, FiniteSets, TLC

\* Number of providers configured under "mcpServers".
NumProviders == 3

Providers == 1 .. NumProviders

\* dict.get's "no entry" result (None).
NoSession == 0

\* The reserved scheme prefix of get_resource.
PapersPrefix == <<"papers://">>

NameX == <<"X">>
NameY == <<"Y">>
NameP == <<"P">>
NameZ == <<"Z">>
UriA == <<"papers://", "a">>
UriB == <<"papers://", "b">>
UriC == <<"docs://", "c">>
UriPZ == <<"papers://", "z">>
UriDZ == <<"docs://", "z">>

\* What a remote provider may declare in its three listings (an input).
Profiles ==
  { [tools |-> <<NameX>>, prompts |-> <<>>, resources |-> <<UriA>>],
    [tools |-> <<NameX, NameY>>, prompts |-> <<NameP>>, resources |-> <<>>],
    [tools |-> <<>>, prompts |-> <<NameX>>, resources |-> <<UriC, UriB>>] }

\* A provider that has not answered a listing yet.
Undeclared == [tools |-> <<>>, prompts |-> <<>>, resources |-> <<>>]

\* The providers' declarations, in configuration (dict iteration) order.
Configs == [Providers -> Profiles]

VARIABLES
  config,            \* what each provider declares, known from its first listing on
  pc,                \* position in ClientApplication.run / process_query
  cur,               \* provider being connected by connect_to_servers
  step,              \* position inside connect_to_server
  exit_stack,        \* self.exit_stack: entered contexts, in entry order
  closes,            \* how often each context has been closed
  sessions,          \* self.sessions: insertion-ordered dict, name -> session
  available_tools,   \* self.available_tools
  available_prompts, \* self.available_prompts
  handshake,         \* per session: "none", "ok" or "failed"
  initCalls,         \* per session: number of initialize() calls
  early,             \* per session: an operation was issued before handshake
  reached,           \* providers for which connect_to_server was entered
  listed,            \* per provider: the listings that returned
  last,              \* outcome of the last chat command (what was printed/called)
  messages,          \* process_query: the conversation state
  contents,          \* process_query: the assistant_content list of each round
  response,          \* process_query: content items of the current response
  idx,               \* process_query: index of the next content item
  has_tool_use,      \* process_query: the flag of the current round
  rounds,            \* backend requests issued by the current query
  calls,             \* call_tool requests issued by the current query
  notices,           \* "Tool ... not found" notices of the current query
  printed,           \* text items printed by the current query
  returned,          \* content items the backend has returned to the current query
  pending,           \* ids of the call_tool requests issued and not yet returned
  caller,            \* who called process_query: "chat" or "prompt"
  line,              \* the line input() returned to chat_loop
  act,               \* what chat_loop did with the line
  opened             \* contexts (transport, session) that were entered

progv == << pc, cur, step >>
stackv == << exit_stack, closes >>
regv == << sessions, available_tools, available_prompts >>
histv == << handshake, initCalls, reached, listed >>
queryv == << messages, contents, response, idx, has_tool_use, rounds, calls,
             notices, printed, returned, pending, caller >>

inputv == << line, act >>

vars == << config, progv, stackv, regv, histv, early, last, queryv, inputv, opened >>

Contexts == {"transport", "session"} \X Providers

Listings == {"tools", "prompts", "resources"}

NoCommand ==
  [cmd |-> "none", name |-> <<>>, outcome |-> "none", sess |-> NoSession, arg |-> <<>>]

----------------------------------------------------------------------------
\* Python dict with insertion order, as a sequence of [key, sess] entries.

HasKey(d, k) == \E i \in 1 .. Len(d) : d[i].key = k

\* dict.get(k): the session stored under k, or None.
Get(d, k) ==
  IF HasKey(d, k) THEN d[CHOOSE i \in 1 .. Len(d) : d[i].key = k].sess
  ELSE NoSession

\* d[k] = v: an existing key keeps its position and gets the new value,
\* a new key is appended.
Put(d, k, v) ==
  IF HasKey(d, k)
  THEN [i \in 1 .. Len(d) |-> IF d[i].key = k THEN [key |-> k, sess |-> v] ELSE d[i]]
  ELSE Append(d, [key |-> k, sess |-> v])

RECURSIVE PutAll(_, _, _)
\* for name in names: self.sessions[name] = s
PutAll(d, names, s) ==
  IF names = <<>> THEN d
  ELSE PutAll(Put(d, Head(names), s), Tail(names), s)

\* The descriptors appended for one listing; "decl" stands for the
\* description and schema the declaring provider sent.
Descriptors(names, s) ==
  [i \in 1 .. Len(names) |-> [name |-> names[i], decl |-> s]]

\* str.startswith
StartsWith(s, prefix) ==
  /\ Len(s) >= Len(prefix)
  /\ SubSeq(s, 1, Len(prefix)) = prefix

----------------------------------------------------------------------------
\* Startup: connect_to_servers / connect_to_server / load_mcp_components.

NextProvider ==
  /\ cur' = cur + 1
  /\ step' = "open"
  /\ pc' = pc

\* A failure that stops connect_to_servers instead of being caught.
CaughtAbort ==
  /\ cur' = NumProviders + 1
  /\ step' = "open"
  /\ pc' = pc

\* The exception of a failed step is caught and printed (line 100, or line 70
\* inside load_mcp_components) and the loop of connect_to_servers goes on.
Caught == NextProvider

SameProvider(next) ==
  /\ step' = next
  /\ cur' = cur
  /\ pc' = pc

\* A context that is entered but not registered for closing.
EnterContextUnowned(stack, kind, p) == stack

\* exit_stack.enter_async_context: the context is entered and registered.
EnterContext(stack, kind, p) == Append(stack, <<kind, p>>)

\* The handshake result is ignored and the listings follow in any case.
AfterInitializeAlways(ok) == "list_tools"

\* Where connect_to_server goes after session.initialize(): on to
\* load_mcp_components, or out through the except clause.
AfterInitialize(ok) == IF ok THEN "list_tools" ELSE "caught"

\* A request is issued on session s.
Issue(s) == early' = [early EXCEPT ![s] = @ \/ handshake[s] # "ok"]

MarkListed(p, what) ==
  /\ listed' = [listed EXCEPT ![p] = @ \cup {what}]
  /\ UNCHANGED << handshake, initCalls, reached >>

Connecting == pc = "connect" /\ cur \in Providers

\* Lines 83-93: open the transport channel (stdio or streamable HTTP).
OpenTransport ==
  /\ Connecting /\ step = "open"
  /\ reached' = reached \cup {cur}
  /\ \E ok \in BOOLEAN :
       IF ok
       THEN /\ exit_stack' = EnterContext(exit_stack, "transport", cur)
            /\ opened' = opened \cup {<<"transport", cur>>}
            /\ SameProvider("session")
       ELSE /\ Caught
            /\ UNCHANGED << exit_stack, opened >>
  /\ UNCHANGED << inputv, config, closes, regv, handshake, initCalls, listed, early, last, queryv >>

\* Lines 95-97: enter the ClientSession context.
EnterSession ==
  /\ Connecting /\ step = "session"
  /\ \E ok \in BOOLEAN :
       IF ok
       THEN /\ exit_stack' = EnterContext(exit_stack, "session", cur)
            /\ opened' = opened \cup {<<"session", cur>>}
            /\ SameProvider("init")
       ELSE /\ Caught
            /\ UNCHANGED << exit_stack, opened >>
  /\ UNCHANGED << inputv, config, closes, regv, histv, early, last, queryv >>

\* Line 98: await session.initialize().
Initialize ==
  /\ Connecting /\ step = "init"
  /\ initCalls' = [initCalls EXCEPT ![cur] = @ + 1]
  /\ \E ok \in BOOLEAN :
       /\ handshake' = [handshake EXCEPT ![cur] = IF ok THEN "ok" ELSE "failed"]
       /\ IF AfterInitialize(ok) = "list_tools"
          THEN SameProvider("list_tools")
          ELSE Caught
  /\ UNCHANGED << inputv, config, stackv, regv, reached, listed, early, last, queryv, opened >>

\* Lines 44-53: list_tools, then route and describe every tool.
ListTools ==
  /\ Connecting /\ step = "list_tools"
  /\ Issue(cur)
  /\ \/ \E d \in Profiles :
          /\ config' = [config EXCEPT ![cur] = d]
          /\ sessions' = PutAll(sessions, d.tools, cur)
          /\ available_tools' = available_tools \o Descriptors(d.tools, cur)
          /\ MarkListed(cur, "tools")
          /\ SameProvider("list_prompts")
     \/ /\ Caught
        /\ UNCHANGED << config, sessions, available_tools, histv >>
  /\ UNCHANGED << inputv, stackv, available_prompts, last, queryv, opened >>

\* Lines 54-64: list_prompts, then route and describe every prompt.
ListPrompts ==
  /\ Connecting /\ step = "list_prompts"
  /\ Issue(cur)
  /\ \E ok \in BOOLEAN :
       IF ok
       THEN /\ sessions' = PutAll(sessions, config[cur].prompts, cur)
            /\ available_prompts' =
                 available_prompts \o Descriptors(config[cur].prompts, cur)
            /\ MarkListed(cur, "prompts")
            /\ SameProvider("list_resources")
       ELSE /\ Caught
            /\ UNCHANGED << sessions, available_prompts, histv >>
  /\ UNCHANGED << inputv, config, stackv, available_tools, last, queryv, opened >>

\* Lines 65-69: list_resources, then route every resource URI; with that
\* load_mcp_components and connect_to_server return.
ListResources ==
  /\ Connecting /\ step = "list_resources"
  /\ Issue(cur)
  /\ \E ok \in BOOLEAN :
       IF ok
       THEN /\ sessions' = PutAll(sessions, config[cur].resources, cur)
            /\ MarkListed(cur, "resources")
            /\ NextProvider
       ELSE /\ Caught
            /\ UNCHANGED << sessions, histv >>
  /\ UNCHANGED << inputv, config, stackv, available_tools, available_prompts, last,
                  queryv, opened >>

\* Line 109 exhausted: connect_to_servers returns, run enters chat_loop.
ConnectDone ==
  /\ pc = "connect" /\ cur > NumProviders
  /\ pc' = "chat"
  /\ UNCHANGED << inputv, config, cur, step, stackv, regv, histv, early, last, queryv, opened >>

----------------------------------------------------------------------------
\* The chat loop's commands that use the registry only.

\* The locals of process_query do not outlive the call.
Fresh ==
  /\ messages' = <<>>
  /\ contents' = <<>>
  /\ response' = <<>>
  /\ idx' = 0
  /\ has_tool_use' = FALSE
  /\ rounds' = 0
  /\ calls' = <<>>
  /\ notices' = <<>>
  /\ printed' = <<>>
  /\ returned' = 0
  /\ pending' = {}
  /\ caller' = "chat"

RECURSIVE FirstMatch(_, _)
\* Lines 173-176: the session of the first entry, in dict iteration order,
\* whose key starts with the prefix; None when there is none.
FirstMatch(d, prefix) ==
  IF d = <<>> THEN NoSession
  ELSE IF StartsWith(Head(d).key, prefix) THEN Head(d).sess
  ELSE FirstMatch(Tail(d), prefix)

\* A fallback that is applied whatever the scheme of the requested URI.
ResolveResourceAnyScheme(d, uri) ==
  IF Get(d, uri) = NoSession THEN FirstMatch(d, PapersPrefix) ELSE Get(d, uri)

\* Lines 171-176: the session get_resource reads from, or None.
ResolveResource(d, uri) ==
  IF Get(d, uri) = NoSession /\ StartsWith(uri, PapersPrefix)
  THEN FirstMatch(d, PapersPrefix)
  ELSE Get(d, uri)

\* The URIs get_resource is asked for.
ResourceRequests == {UriA, UriC, UriPZ, UriDZ}

\* What read_resource may do: content, a result without contents, an exception.
ReadOutcomes == {"content", "no_content", "error"}

\* The URI of the key the fallback matched, when it was taken (not the code).
ReadArgumentMatched(d, uri) ==
  IF HasKey(d, uri) \/ ~ StartsWith(uri, PapersPrefix) THEN uri
  ELSE LET S == {i \in 1 .. Len(d) : StartsWith(d[i].key, PapersPrefix)} IN
       IF S = {} THEN uri ELSE d[CHOOSE i \in S : \A k \in S : i <= k].key

\* Line 181, uri=resource_uri: the URI get_resource asks the session for.
ReadArgument(d, uri) == uri

\* get_resource that also stores the route it resolved (not the code).
GetResourceCaching(uri) ==
  /\ pc = "chat"
  /\ LET session == ResolveResource(sessions, uri) IN
       IF session = NoSession
       THEN /\ last' = [cmd |-> "get_resource", name |-> uri, outcome |-> "not_found",
                        sess |-> NoSession, arg |-> <<>>]
            /\ UNCHANGED << early, sessions >>
       ELSE /\ Issue(session)
            /\ sessions' = Put(sessions, uri, session)
            /\ \E o \in ReadOutcomes :
                 last' = [cmd |-> "get_resource", name |-> uri, outcome |-> o,
                          sess |-> session, arg |-> ReadArgument(sessions, uri)]
  /\ Fresh
  /\ UNCHANGED << inputv, config, progv, stackv, available_tools, available_prompts,
                  histv, opened >>

\* Lines 163-189: get_resource(uri).
GetResource(uri) ==
  /\ pc = "chat"
  /\ LET session == ResolveResource(sessions, uri) IN
       IF session = NoSession
       THEN /\ last' = [cmd |-> "get_resource", name |-> uri, outcome |-> "not_found",
                        sess |-> NoSession, arg |-> <<>>]
            /\ UNCHANGED early
       ELSE /\ Issue(session)
            /\ \E o \in ReadOutcomes :
                 last' = [cmd |-> "get_resource", name |-> uri, outcome |-> o,
                          sess |-> session, arg |-> ReadArgument(sessions, uri)]
  /\ Fresh
  /\ UNCHANGED << inputv, config, progv, stackv, regv, histv, opened >>

\* Lines 191-205: list_prompts().
ListPromptsCmd ==
  /\ pc = "chat"
  /\ last' = [cmd |-> "list_prompts", name |-> <<>>,
              outcome |-> IF available_prompts = <<>> THEN "no_prompts" ELSE "listed",
              sess |-> NoSession, arg |-> <<>>]
  /\ Fresh
  /\ UNCHANGED << inputv, config, progv, stackv, regv, histv, early, opened >>

----------------------------------------------------------------------------
\* Shutdown: ClientApplication.run's finally clause and cleanup().

\* Lines 253-254 and 308-310: "quit" ends chat_loop, run goes to cleanup.
Quit ==
  /\ pc = "chat"
  /\ pc' = "cleanup"
  /\ last' = [cmd |-> "quit", name |-> <<>>, outcome |-> "none",
              sess |-> NoSession, arg |-> <<>>]
  /\ Fresh
  /\ UNCHANGED << inputv, config, cur, step, stackv, regv, histv, early, opened >>

\* Lines 306-310: an exception that no except clause of the client catches
\* (KeyboardInterrupt, CancelledError; "except Exception" lets them pass) or
\* the one re-raised at line 112 leaves run through its finally clause.
Escape ==
  /\ pc \in {"connect", "chat", "model", "items", "calling", "after_for"}
  /\ pc' = "cleanup"
  /\ last' = [cmd |-> "escape", name |-> <<>>, outcome |-> "none",
              sess |-> NoSession, arg |-> <<>>]
  /\ Fresh
  /\ UNCHANGED << inputv, config, cur, step, stackv, regv, histv, early, opened >>

\* Line 290, exit_stack.aclose(): the contexts are closed last-in first-out;
\* an exception of one close is kept and the remaining contexts are closed.
CleanupPop ==
  /\ pc = "cleanup" /\ exit_stack # <<>>
  /\ closes' = [closes EXCEPT ![exit_stack[Len(exit_stack)]] = @ + 1]
  /\ exit_stack' = SubSeq(exit_stack, 1, Len(exit_stack) - 1)
  /\ \E raised \in BOOLEAN :
       last' = IF raised THEN [last EXCEPT !.outcome = "close_error"] ELSE last
  /\ UNCHANGED << inputv, config, progv, regv, histv, early, queryv, opened >>

\* Line 290 returns (or re-raises the kept exception): run has ended.
CleanupDone ==
  /\ pc = "cleanup" /\ exit_stack = <<>>
  /\ pc' = "done"
  /\ UNCHANGED << inputv, config, cur, step, stackv, regv, histv, early, last, queryv, opened >>

----------------------------------------------------------------------------
\* The conversation loop: process_query, and execute_prompt which feeds it.

\* Content items the backend returns during one query, at most.
MaxItems == 3

\* A content item of a backend response: text, or a tool_use naming a tool.
\* Its correlation id is its place <<round, index>>.
ItemAlphabet ==
  { [type |-> "text", name |-> <<>>],
    [type |-> "tool_use", name |-> NameX],
    [type |-> "tool_use", name |-> NameZ] }

Responses(k) == UNION { [1 .. n -> ItemAlphabet] : n \in 0 .. k }

\* The prompt names execute_prompt is asked for.
PromptRequests == {NameX, NameZ}

\* The text of a plain input line, and the text get_prompt renders (line 222).
QueryText == <<"q">>
PromptText(name) == <<"prompt:">> \o name

\* A user turn whose content is a string: the record keeps the string.
UserText(text) == [role |-> "user", kind |-> "text", ref |-> <<0, 0>>, text |-> text]
\* An assistant turn holds the list object assistant_content of its round.
AssistantTurn(r) ==
  [role |-> "assistant", kind |-> "content", ref |-> <<r, 0>>, text |-> <<>>]
ToolResult(id) ==
  [role |-> "user", kind |-> "tool_result", ref |-> id, text |-> <<>>]

\* The conversation state kept in one list for every query (not the code).
StartMessagesShared(text) ==
  /\ messages' = Append(messages, UserText(text))
  /\ contents' = <<>>
  /\ response' = <<>>
  /\ idx' = 0
  /\ has_tool_use' = FALSE
  /\ rounds' = 0
  /\ calls' = <<>>
  /\ notices' = <<>>
  /\ printed' = <<>>
  /\ returned' = 0
  /\ pending' = {}

\* Line 122: messages = [{"role": "user", "content": query}]
StartMessages(text) ==
  /\ messages' = << UserText(text) >>
  /\ contents' = <<>>
  /\ response' = <<>>
  /\ idx' = 0
  /\ has_tool_use' = FALSE
  /\ rounds' = 0
  /\ calls' = <<>>
  /\ notices' = <<>>
  /\ printed' = <<>>
  /\ returned' = 0
  /\ pending' = {}

\* Line 282: a plain input line is passed to process_query.
StartQuery ==
  /\ pc = "chat"
  /\ pc' = "model"
  /\ StartMessages(QueryText)
  /\ caller' = "chat"
  /\ last' = [cmd |-> "query", name |-> <<>>, outcome |-> "running",
              sess |-> NoSession, arg |-> <<>>]
  /\ UNCHANGED << inputv, config, cur, step, stackv, regv, histv, early, opened >>

\* What get_prompt may do: messages, a result without messages, an exception.
PromptOutcomes == {"rendered", "no_messages", "error"}

\* Line 215: the session execute_prompt asks for the prompt.
ResolvePrompt(d, name) == Get(d, name)

\* Lines 207-236: execute_prompt(name, args) up to its call of process_query.
ExecutePrompt(name) ==
  /\ pc = "chat"
  /\ LET session == ResolvePrompt(sessions, name) IN
       IF session = NoSession
       THEN /\ last' = [cmd |-> "execute_prompt", name |-> name,
                        outcome |-> "not_found", sess |-> NoSession, arg |-> <<>>]
            /\ Fresh
            /\ UNCHANGED << pc, early >>
       ELSE /\ Issue(session)
            /\ \E o \in PromptOutcomes :
                 IF o = "rendered"
                 THEN /\ pc' = "model"
                      /\ StartMessages(PromptText(name))
                      /\ caller' = "prompt"
                      /\ last' = [cmd |-> "execute_prompt", name |-> name,
                                  outcome |-> "running", sess |-> session,
                                  arg |-> name]
                 ELSE /\ pc' = pc
                      /\ Fresh
                      /\ last' = [cmd |-> "execute_prompt", name |-> name,
                                  outcome |-> o, sess |-> session, arg |-> name]
  /\ UNCHANGED << inputv, config, cur, step, stackv, regv, histv, opened >>

\* process_query is left, and its exception is caught nowhere (not the code).
ReturnUncaught(how) ==
  /\ pc' = IF how = "raised" THEN "cleanup" ELSE "chat"
  /\ last' = [last EXCEPT !.outcome = how]

\* process_query is left: normally, or by an exception that chat_loop
\* (line 283) or execute_prompt (line 235) catches and prints.
Return(how) ==
  /\ pc' = "chat"
  /\ last' = [last EXCEPT !.outcome = how]

\* Lines 124-131: the conversation state and the tool descriptors are sent
\* to the backend, which answers with a sequence of content items.
BackendRespond ==
  /\ pc = "model"
  /\ rounds' = rounds + 1
  /\ \E resp \in Responses(MaxItems - returned) :
       /\ response' = resp
       /\ returned' = returned + Len(resp)
       /\ pc' = IF resp = <<>> THEN "after_for" ELSE "items"
  /\ idx' = 1
  /\ contents' = Append(contents, <<>>)
  /\ has_tool_use' = FALSE
  /\ UNCHANGED << inputv, config, cur, step, stackv, regv, histv, early, last, messages,
                  calls, notices, printed, pending, caller, opened >>

\* Line 124 raises (the backend request fails).
BackendRaise ==
  /\ pc = "model"
  /\ rounds' = rounds + 1
  /\ Return("raised")
  /\ UNCHANGED << inputv, config, cur, step, stackv, regv, histv, early, messages, contents,
                  response, idx, has_tool_use, calls, notices, printed, returned, pending,
                  caller, opened >>

\* The for loop of line 132 takes the next item or is exhausted.
Advance ==
  /\ idx' = idx + 1
  /\ pc' = IF idx + 1 > Len(response) THEN "after_for" ELSE "items"

AtItem(type) ==
  /\ pc = "items"
  /\ idx \in 1 .. Len(response)
  /\ response[idx].type = type

\* assistant_content.append(content)
AppendContent ==
  contents' = [contents EXCEPT ![rounds] = Append(@, response[idx])]

\* Lines 133-135: a text item is printed.
ItemText ==
  /\ AtItem("text")
  /\ printed' = Append(printed, <<rounds, idx>>)
  /\ AppendContent
  /\ Advance
  /\ UNCHANGED << inputv, config, cur, step, stackv, regv, histv, early, last, messages,
                  response, has_tool_use, rounds, calls, notices, returned, pending,
                  caller, opened >>

\* Line 141: the session process_query sends the invocation to.
ResolveTool(d, name) == Get(d, name)

\* Lines 136-144: a tool_use item whose name has no route: notice and break.
ToolNotFound ==
  /\ AtItem("tool_use")
  /\ ResolveTool(sessions, response[idx].name) = NoSession
  /\ has_tool_use' = TRUE
  /\ AppendContent
  /\ messages' = Append(messages, AssistantTurn(rounds))
  /\ notices' = Append(notices, <<rounds, idx>>)
  /\ pc' = "after_for"
  /\ UNCHANGED << inputv, config, cur, step, stackv, regv, histv, early, last, response,
                  idx, rounds, calls, printed, returned, pending, caller, opened >>

\* The call is started as a task and the loop goes on (not the code).
AwaitNot(id) ==
  /\ pending' = pending \cup {id}
  /\ Advance

\* Line 145, await: process_query is suspended until call_tool is over.
Await(id) ==
  /\ pending' = pending \cup {id}
  /\ pc' = "calling"
  /\ UNCHANGED idx

\* Lines 136-147: a tool_use item with a route: the assistant turn is
\* appended and call_tool is issued on the item's session.
ToolCall ==
  /\ AtItem("tool_use")
  /\ LET session == ResolveTool(sessions, response[idx].name) IN
       /\ session # NoSession
       /\ Issue(session)
       /\ calls' = Append(calls, [id |-> <<rounds, idx>>,
                                  name |-> response[idx].name, sess |-> session])
  /\ has_tool_use' = TRUE
  /\ AppendContent
  /\ messages' = Append(messages, AssistantTurn(rounds))
  /\ Await(<<rounds, idx>>)
  /\ UNCHANGED << inputv, config, cur, step, stackv, regv, histv, last, response, rounds,
                  notices, printed, returned, caller, opened >>

\* Lines 145-159: call_tool is over: its result is appended as a user turn,
\* or its exception leaves process_query.
ToolReturn ==
  /\ pc = "calling"
  /\ pending' = pending \ {<<rounds, idx>>}
  /\ \/ /\ messages' = Append(messages, ToolResult(<<rounds, idx>>))
        /\ Advance
        /\ UNCHANGED last
     \/ /\ Return("raised")
        /\ UNCHANGED << messages, idx >>
  /\ UNCHANGED << inputv, config, cur, step, stackv, regv, histv, early, contents, response,
                  has_tool_use, rounds, calls, notices, printed, returned,
                  caller, opened >>

\* The while loop with a limit of two rounds (not the code).
RoundEndCapped ==
  /\ pc = "after_for"
  /\ IF has_tool_use /\ rounds < 2
     THEN pc' = "model" /\ UNCHANGED last
     ELSE Return("completed")
  /\ UNCHANGED << inputv, config, cur, step, stackv, regv, histv, early, queryv, opened >>

\* Lines 160-161 and 123: after the for loop, either the next round or the
\* end of the query.
RoundEnd ==
  /\ pc = "after_for"
  /\ IF has_tool_use
     THEN pc' = "model" /\ UNCHANGED last
     ELSE Return("completed")
  /\ UNCHANGED << inputv, config, cur, step, stackv, regv, histv, early, queryv, opened >>

----------------------------------------------------------------------------
\* chat_loop's dispatch of one input line (lines 250-282).  A string is a
\* sequence of atoms: the characters " ", "@", "/", "=" and words.

MaxWords == 3

Space == " "
Words ==
  { <<"quit">>, <<"QUIT">>, <<"papers">>, <<"x">>, <<"x", "=", "x">>,
    <<"@", "papers">>, <<"@", "x">>,
    <<"/", "prompts">>, <<"/", "PROMPTS">>, <<"/", "prompt">>, <<"/", "x">> }

\* The words of a sequence joined by one space.
RECURSIVE Join(_)
Join(ws) ==
  IF ws = <<>> THEN <<>>
  ELSE IF Len(ws) = 1 THEN ws[1]
  ELSE ws[1] \o << Space >> \o Join(Tail(ws))

Pads == { <<>>, << Space >> }

\* What input() may return: up to MaxWords words, with or without blanks
\* around them.
Lines ==
  { a \o Join(ws) \o b :
      a \in Pads, b \in Pads, ws \in UNION { [1 .. n -> Words] : n \in 0 .. MaxWords } }

\* str.strip()
RECURSIVE LStrip(_)
LStrip(s) == IF s # <<>> /\ Head(s) = Space THEN LStrip(Tail(s)) ELSE s
RECURSIVE RStrip(_)
RStrip(s) ==
  IF s # <<>> /\ s[Len(s)] = Space THEN RStrip(SubSeq(s, 1, Len(s) - 1)) ELSE s
Strip(s) == RStrip(LStrip(s))

\* str.lower()
LowerAtom(a) ==
  CASE a = "QUIT" -> "quit"
    [] a = "PROMPTS" -> "prompts"
    [] OTHER -> a
Lower(s) == [i \in 1 .. Len(s) |-> LowerAtom(s[i])]

\* str.split(): the maximal runs without a blank, in order.
RECURSIVE SplitFrom(_, _, _)
SplitFrom(s, part, parts) ==
  IF s = <<>> THEN (IF part = <<>> THEN parts ELSE Append(parts, part))
  ELSE IF Head(s) = Space
       THEN SplitFrom(Tail(s), <<>>, IF part = <<>> THEN parts ELSE Append(parts, part))
       ELSE SplitFrom(Tail(s), Append(part, Head(s)), parts)
Split(s) == SplitFrom(s, <<>>, <<>>)

\* Lines 273-277: the key=value tokens become the prompt's arguments; a
\* later token with the same key replaces the value.
HasEquals(part) == \E i \in 1 .. Len(part) : part[i] = "="
KeyOf(part) ==
  SubSeq(part, 1, (CHOOSE i \in 1 .. Len(part) :
                     part[i] = "=" /\ \A k \in 1 .. i - 1 : part[k] # "=") - 1)
ValueOf(part) == SubSeq(part, Len(KeyOf(part)) + 2, Len(part))
\* args[key] = value
PutArg(args, k, v) ==
  IF \E i \in 1 .. Len(args) : args[i].key = k
  THEN [i \in 1 .. Len(args) |->
          IF args[i].key = k THEN [key |-> k, value |-> v] ELSE args[i]]
  ELSE Append(args, [key |-> k, value |-> v])
RECURSIVE ArgsFrom(_, _)
ArgsFrom(parts, args) ==
  IF parts = <<>> THEN args
  ELSE IF HasEquals(Head(parts))
       THEN ArgsFrom(Tail(parts),
                     PutArg(args, KeyOf(Head(parts)), ValueOf(Head(parts))))
       ELSE ArgsFrom(Tail(parts), args)

\* What chat_loop does with one line: the operations it awaits, whether it
\* leaves the loop, and what it prints itself.
Did(ops, ends, says) == [calls |-> ops, ends |-> ends, says |-> says]
Call(op, arg, args) == [op |-> op, arg |-> arg, args |-> args]
NoAct == Did(<<>>, FALSE, "undispatched")

\* An unknown command handed to the conversation (not the code).
UnknownAsQuery(query, command) ==
  Did(<< Call("process_query", query, <<>>) >>, FALSE, "nothing")

\* Lines 279-280: an unknown command is reported.
Unknown(query, command) == Did(<<>>, FALSE, "unknown")

\* Lines 263-281: a line that starts with "/".
Command(query) ==
  LET parts == Split(query)
      command == Lower(parts[1])
  IN  IF command = <<"/", "prompts">>
      THEN Did(<< Call("list_prompts", <<>>, <<>>) >>, FALSE, "nothing")
      ELSE IF command = <<"/", "prompt">>
      THEN IF Len(parts) < 2
           THEN Did(<<>>, FALSE, "usage")
           ELSE Did(<< Call("execute_prompt", parts[2],
                            ArgsFrom(SubSeq(parts, 3, Len(parts)), <<>>)) >>,
                    FALSE, "nothing")
      ELSE Unknown(query, command)

\* Lines 255-262: a line that starts with "@".
ResourceUri(query) ==
  LET topic == Tail(query) IN
    IF topic = <<"papers">> THEN <<"papers://", "folders">>
    ELSE <<"papers://">> \o topic

\* Lines 250-282: one pass of the loop body.
Dispatch(l) ==
  LET query == Strip(l) IN
    IF query = <<>> THEN Did(<<>>, FALSE, "nothing")
    ELSE IF Lower(query) = <<"quit">> THEN Did(<<>>, TRUE, "nothing")
    ELSE IF Head(query) = "@"
         THEN Did(<< Call("get_resource", ResourceUri(query), <<>>) >>, FALSE, "nothing")
    ELSE IF Head(query) = "/" THEN Command(query)
    ELSE Did(<< Call("process_query", query, <<>>) >>, FALSE, "nothing")

\* chat_loop handles the line it has read.
DispatchLine ==
  /\ act = NoAct
  /\ act' = Dispatch(line)
  /\ UNCHANGED << line, config, progv, stackv, regv, histv, early, last, queryv,
                  opened >>

----------------------------------------------------------------------------
Init ==
  /\ config = [p \in Providers |-> Undeclared]
  /\ pc = "connect" /\ cur = 1 /\ step = "open"
  /\ exit_stack = <<>>
  /\ closes = [c \in Contexts |-> 0]
  /\ sessions = <<>>
  /\ available_tools = <<>>
  /\ available_prompts = <<>>
  /\ handshake = [p \in Providers |-> "none"]
  /\ initCalls = [p \in Providers |-> 0]
  /\ early = [p \in Providers |-> FALSE]
  /\ reached = {}
  /\ listed = [p \in Providers |-> {}]
  /\ last = NoCommand
  /\ messages = <<>> /\ contents = <<>> /\ response = <<>> /\ idx = 0
  /\ has_tool_use = FALSE /\ rounds = 0 /\ calls = <<>> /\ notices = <<>>
  /\ printed = <<>> /\ returned = 0 /\ pending = {} /\ caller = "chat"
  /\ line = <<>> /\ act = NoAct
  /\ opened = {}

\* ClientApplication.run from construction to its end: startup, the chat
\* loop's registry commands, shutdown.
Next ==
  \/ OpenTransport
  \/ EnterSession
  \/ Initialize
  \/ ListTools
  \/ ListPrompts
  \/ ListResources
  \/ ConnectDone
  \/ \E uri \in ResourceRequests : GetResource(uri)
  \/ ListPromptsCmd
  \/ Quit
  \/ Escape
  \/ CleanupPop
  \/ CleanupDone

Spec == Init /\ [][Next]_vars


----------------------------------------------------------------------------
\* The registry a startup without failures builds from the declarations cfg.

Registry == [sessions |-> sessions, tools |-> available_tools,
             prompts |-> available_prompts]

\* Lines 44-69 for one session.
LoadComponents(reg, decl, s) ==
  [sessions |-> PutAll(PutAll(PutAll(reg.sessions, decl.tools, s), decl.prompts, s),
                       decl.resources, s),
   tools |-> reg.tools \o Descriptors(decl.tools, s),
   prompts |-> reg.prompts \o Descriptors(decl.prompts, s)]

RECURSIVE Loaded(_, _)
\* Lines 109-110 for the first n providers.
Loaded(cfg, n) ==
  IF n = 0 THEN [sessions |-> <<>>, tools |-> <<>>, prompts |-> <<>>]
  ELSE LoadComponents(Loaded(cfg, n - 1), cfg[n], n)

RECURSIVE AllEntered(_)
AllEntered(n) ==
  IF n = 0 THEN <<>>
  ELSE AllEntered(n - 1) \o << <<"transport", n>>, <<"session", n>> >>

\* The chat loop is entered after a startup in which every provider
\* connected, completed the handshake and answered its listings.
ChatEntry(conf) ==
  /\ config = conf
  /\ pc = "chat" /\ cur = NumProviders + 1 /\ step = "open"
  /\ exit_stack = AllEntered(NumProviders)
  /\ closes = [c \in Contexts |-> 0]
  /\ sessions = Loaded(config, NumProviders).sessions
  /\ available_tools = Loaded(config, NumProviders).tools
  /\ available_prompts = Loaded(config, NumProviders).prompts
  /\ handshake = [p \in Providers |-> "ok"]
  /\ initCalls = [p \in Providers |-> 1]
  /\ early = [p \in Providers |-> FALSE]
  /\ reached = Providers
  /\ listed = [p \in Providers |-> Listings]
  /\ last = NoCommand
  /\ messages = <<>> /\ contents = <<>> /\ response = <<>> /\ idx = 0
  /\ has_tool_use = FALSE /\ rounds = 0 /\ calls = <<>> /\ notices = <<>>
  /\ printed = <<>> /\ returned = 0 /\ pending = {} /\ caller = "chat"
  /\ opened = Contexts

InitChat ==
  /\ \E conf \in Configs : ChatEntry(conf)
  /\ line = <<>> /\ act = NoAct

\* The chat loop with all its commands, up to shutdown.
NextChat ==
  \/ StartQuery
  \/ \E name \in PromptRequests : ExecutePrompt(name)
  \/ BackendRespond
  \/ BackendRaise
  \/ ItemText
  \/ ToolNotFound
  \/ ToolCall
  \/ ToolReturn
  \/ RoundEnd
  \/ \E uri \in ResourceRequests : GetResource(uri)
  \/ ListPromptsCmd
  \/ Quit
  \/ Escape
  \/ CleanupPop
  \/ CleanupDone

SpecChat == InitChat /\ [][NextChat]_vars

\* chat_loop's dispatch alone: every line of Lines is read once and handled.
InitDispatch ==
  /\ ChatEntry([p \in Providers |-> Undeclared])
  /\ line \in Lines /\ act = NoAct

NextDispatch == DispatchLine

SpecDispatch == InitDispatch /\ [][NextDispatch]_vars

\* process_query alone, query after query, with one provider that declares
\* tool X.  The coroutine is the only task of the client, so a step of it
\* that can be taken is taken; a backend request or a call_tool that is
\* awaited comes back, with a result or with an exception.
QueryConf ==
  [p \in Providers |->
     IF p = 1 THEN [tools |-> <<NameX>>, prompts |-> <<>>, resources |-> <<UriA>>]
     ELSE Undeclared]

InitQuery ==
  /\ ChatEntry(QueryConf)
  /\ line = <<>> /\ act = NoAct

QueryStep ==
  \/ BackendRespond
  \/ BackendRaise
  \/ ItemText
  \/ ToolNotFound
  \/ ToolCall
  \/ ToolReturn
  \/ RoundEnd

NextQuery ==
  \/ StartQuery
  \/ QueryStep

SpecQuery == InitQuery /\ [][NextQuery]_vars /\ WF_vars(QueryStep)

\* A failure-free startup under Spec enters the chat loop in a state of
\* InitChat: the registry is the one Loaded computes from the declarations.
StartupBuildsLoaded ==
  (pc = "chat" /\ \A p \in Providers : listed[p] = Listings)
    => /\ config \in Configs
       /\ Registry = Loaded(config, NumProviders)
       /\ exit_stack = AllEntered(NumProviders)
       /\ opened = Contexts
       /\ reached = Providers
       /\ \A p \in Providers : handshake[p] = "ok" /\ initCalls[p] = 1 /\ ~ early[p]
       /\ cur = NumProviders + 1 /\ step = "open"

----------------------------------------------------------------------------
\* Properties.

Range(f) == { f[i] : i \in DOMAIN f }

\* The providers that declared name as a tool, a prompt, a resource.
ToolDeclarers(name) ==
  { p \in Providers : "tools" \in listed[p] /\ name \in Range(config[p].tools) }
PromptDeclarers(name) ==
  { p \in Providers : "prompts" \in listed[p] /\ name \in Range(config[p].prompts) }

Last(S) == CHOOSE p \in S : \A q \in S : q <= p

RECURSIVE SumTools(_)
SumTools(n) == IF n = 0 THEN 0 ELSE SumTools(n - 1) + Len(config[n].tools)

StartupSucceeded == \A p \in Providers : listed[p] = Listings

QueryOver ==
  /\ pc = "chat"
  /\ last.cmd \in {"query", "execute_prompt"}
  /\ last.outcome \in {"completed", "raised"}

\* C1: when two or more providers declare a tool named X, every call_tool
\* that process_query issues for X goes to the session of the provider
\* connected last among them, and available_tools holds one descriptor for
\* each declaration.
C1_LastRegisteredWins ==
  /\ \A i \in 1 .. Len(calls) :
        Cardinality(ToolDeclarers(calls[i].name)) >= 2
          => calls[i].sess = Last(ToolDeclarers(calls[i].name))
  /\ \A p \in Providers : \A j \in 1 .. Len(config[p].tools) :
        "tools" \in listed[p]
          => [name |-> config[p].tools[j], decl |-> p] \in Range(available_tools)

\* C2: after a startup in which every connection, handshake and listing
\* succeeded, available_tools is as long as the sum of the providers' tool
\* counts, and a tool name declared by exactly one provider resolves, in the
\* routing map process_query uses, to that provider's session.
C2_RegistryComplete ==
  (pc = "chat" /\ StartupSucceeded) =>
    /\ Len(available_tools) = SumTools(NumProviders)
    /\ \A p \in Providers : \A j \in 1 .. Len(config[p].tools) :
          ToolDeclarers(config[p].tools[j]) = {p}
            => ResolveTool(sessions, config[p].tools[j]) = p

\* C3: tools, prompts and resources are separate namespaces: process_query
\* issues call_tool only for a name that some provider declared as a tool,
\* and on a session that declared it as a tool; execute_prompt issues
\* get_prompt only for a name that some provider declared as a prompt.
C3_SeparateNamespaces ==
  /\ \A i \in 1 .. Len(calls) : calls[i].sess \in ToolDeclarers(calls[i].name)
  /\ (last.cmd = "execute_prompt" /\ last.sess # NoSession)
        => last.sess \in PromptDeclarers(last.name)

\* The positions of the routing map whose key starts with "papers://".
PapersPositions ==
  { i \in 1 .. Len(sessions) : StartsWith(sessions[i].key, PapersPrefix) }

\* C4: get_resource of a URI that is no key of the routing map: if the URI
\* starts with "papers://", read_resource is issued on the session of the
\* first entry, in dict order, whose key starts with "papers://" (not-found
\* when there is none); if it does not, the outcome is not-found and no
\* read_resource is issued, whatever is registered.
C4_FallbackRouting ==
  (last.cmd = "get_resource" /\ ~ HasKey(sessions, last.name)) =>
    IF StartsWith(last.name, PapersPrefix) /\ PapersPositions # {}
    THEN /\ last.outcome \in ReadOutcomes
         /\ \E i \in PapersPositions :
              /\ \A j \in PapersPositions : i <= j
              /\ last.sess = sessions[i].sess
    ELSE /\ last.outcome = "not_found"
         /\ last.sess = NoSession

\* C4 witness: an unregistered "papers://" URI was read through the fallback
\* while the routing map holds "papers://" keys of two different sessions.
C4_Witness ==
  /\ last.cmd = "get_resource" /\ last.name = UriPZ
  /\ last.outcome = "content"
  /\ \E i, j \in PapersPositions : sessions[i].sess # sessions[j].sess

HasToolUse(resp) == \E i \in 1 .. Len(resp) : resp[i].type = "tool_use"

\* C5: after a backend response, another backend request is issued if and
\* only if the response held a tool_use item: a further request is only
\* issued after a response with a tool_use, and a query that is over, its
\* last request answered, ended on a response without tool_use.
C5_RoundRule ==
  /\ (pc = "model" /\ rounds >= 1) => HasToolUse(response)
  /\ (QueryOver /\ rounds = Len(contents)) => ~ HasToolUse(response)

\* The response holds exactly three items, tool_use of A, B, C in order, with
\* A and C routed and B not.
IsABC(resp) ==
  /\ Len(resp) = 3
  /\ \A i \in 1 .. 3 : resp[i].type = "tool_use"
  /\ ResolveTool(sessions, resp[1].name) # NoSession
  /\ ResolveTool(sessions, resp[2].name) = NoSession
  /\ ResolveTool(sessions, resp[3].name) # NoSession

\* C6: once a response [A, B, C] with A and C resolvable and B unresolved
\* has been processed, call_tool was issued for A only, not-found was
\* reported for B, and nothing was issued for C.
C6_EarlyExitOnMiss ==
  (IsABC(response) /\ rounds = 1 /\ pc \in {"after_for", "model", "chat"}) =>
    /\ Len(calls) = 1 /\ calls[1].id = <<1, 1>>
    /\ notices = << <<1, 2>> >>

\* C7: a call_tool that raises is caught in the conversation loop: every
\* call_tool that is over has a result turn with its correlation id in the
\* conversation state, and only a failing backend request ends a query by
\* an exception.
C7_CallFailureFedBack ==
  /\ \A i \in 1 .. Len(calls) :
        calls[i].id \notin pending => ToolResult(calls[i].id) \in Range(messages)
  /\ (QueryOver /\ last.outcome = "raised") => rounds > Len(contents)

\* Provider p contributed nothing to the registry.
NoContribution(p) ==
  /\ \A i \in 1 .. Len(sessions) : sessions[i].sess # p
  /\ \A i \in 1 .. Len(available_tools) : available_tools[i].decl # p
  /\ \A i \in 1 .. Len(available_prompts) : available_prompts[i].decl # p

\* C8: a failure for one provider does not stop startup: every provider
\* before the current one was attempted, so all were when connect_to_servers
\* returns; a provider whose listing returned has its descriptors and routes
\* registered whatever happened to earlier providers; a provider whose
\* connection or handshake failed contributes nothing.
C8_StartupIsolation ==
  /\ pc = "connect" => \A p \in Providers : p < cur => p \in reached
  /\ pc = "chat" => reached = Providers
  /\ \A p \in Providers :
        /\ handshake[p] # "ok" => NoContribution(p)
        /\ "tools" \in listed[p] =>
              \A j \in 1 .. Len(config[p].tools) :
                /\ [name |-> config[p].tools[j], decl |-> p] \in Range(available_tools)
                /\ HasKey(sessions, config[p].tools[j])
        /\ "prompts" \in listed[p] =>
              \A j \in 1 .. Len(config[p].prompts) :
                [name |-> config[p].prompts[j], decl |-> p] \in Range(available_prompts)

\* C8 witness: the chat loop is reached after the first provider failed to
\* connect, the second failed its handshake, and a later one registered a tool.
C8_Witness ==
  /\ pc = "chat"
  /\ <<"transport", 1>> \notin opened
  /\ handshake[2] = "failed"
  /\ \E i \in 1 .. Len(available_tools) : available_tools[i].decl = NumProviders

\* C9: only cleanup closes, no context is closed twice or without having
\* been opened, and when run has ended every transport and session that was
\* opened has been closed exactly once and the exit stack is empty, so that
\* closing again closes nothing.
C9_ShutdownClosesAll ==
  /\ \A c \in Contexts :
        /\ closes[c] <= 1
        /\ closes[c] = 1 => (c \in opened /\ pc \in {"cleanup", "done"})
  /\ pc = "done" =>
        /\ \A c \in opened : closes[c] = 1
        /\ exit_stack = <<>>

\* C9 witness: run has ended by an escaping exception, and the session of a
\* provider whose handshake failed was closed although a close raised.
C9_Witness ==
  /\ pc = "done"
  /\ last.cmd = "escape" /\ last.outcome = "close_error"
  /\ \E p \in Providers : handshake[p] = "failed" /\ closes[<<"session", p>>] = 1

\* C10: no listing or invocation is issued on a session before its
\* initialize() succeeded; initialize() is called at most once, and exactly
\* once when connect_to_server has gone past it; every session in the
\* routing map has completed its handshake.
C10_HandshakeFirst ==
  /\ \A p \in Providers :
        /\ ~ early[p]
        /\ initCalls[p] <= 1
        /\ (handshake[p] # "none") <=> (initCalls[p] = 1)
        /\ (<<"session", p>> \in opened /\ cur > p) => initCalls[p] = 1
        /\ listed[p] # {} => handshake[p] = "ok"
  /\ \A i \in 1 .. Len(sessions) : handshake[sessions[i].sess] = "ok"

\* C10 witness: a resource was read from a session in the chat loop while
\* another session's handshake had failed.
C10_Witness ==
  /\ last.cmd = "get_resource" /\ last.sess # NoSession
  /\ \E p \in Providers : handshake[p] = "failed"

----------------------------------------------------------------------------
\* Query independence.

\* process_query is running.
InQuery == pc \in {"model", "items", "calling", "after_for"}

\* The string the running invocation of process_query was called with.
OwnText == IF caller = "prompt" THEN PromptText(last.name) ELSE QueryText

\* C11: the conversation state of a running process_query starts with the
\* invocation's own user message and holds no other user message; at the
\* first backend request it holds nothing else; every later turn stems from
\* a round of this invocation, so no turn of another query is ever sent.
C11_QueryIndependence ==
  InQuery =>
    /\ Len(messages) >= 1 /\ messages[1] = UserText(OwnText)
    /\ \A k \in 2 .. Len(messages) :
          /\ messages[k].kind # "text"
          /\ messages[k].ref[1] \in 1 .. rounds
    /\ rounds = 0 => messages = << UserText(OwnText) >>

\* C11 witness: a query started by execute_prompt sends its state to the
\* backend a second time, with the turns of its first round.
C11_Witness ==
  /\ pc = "model" /\ caller = "prompt"
  /\ rounds = 1 /\ Len(messages) >= 3

----------------------------------------------------------------------------
\* Correlation, the unrouted name, and the emission of text.

\* C12: whenever process_query is about to send the conversation state to
\* the backend, every invocation request held by an assistant turn of the
\* state is followed by a user result turn carrying the request's id.
C12_RequestsCorrelated ==
  pc = "model" =>
    \A k \in 1 .. Len(messages) :
      messages[k].role = "assistant" =>
        LET r == messages[k].ref[1] IN
          \A j \in 1 .. Len(contents[r]) :
            contents[r][j].type = "tool_use" =>
              \E k2 \in (k + 1) .. Len(messages) :
                messages[k2] = ToolResult(<<r, j>>)

\* C13: once process_query has printed the not-found notice of an
\* invocation request, it issues no further backend request for the query:
\* the round of the notice stays the last round and control goes back to
\* the chat loop, which goes on.
C13_NotFoundReturns ==
  notices # <<>> =>
    /\ \A j \in 1 .. Len(notices) : notices[j][1] = rounds
    /\ pc \in {"after_for", "chat"}

\* The positions of the text items of a response, in order.
TextItems(resp, r) ==
  SelectSeq([i \in 1 .. Len(resp) |-> <<r, i>>],
            LAMBDA e : resp[e[2]].type = "text")

\* The items of round r printed so far, in the order of printing.
PrintedOf(r) == SelectSeq(printed, LAMBDA e : e[1] = r)

\* C14: when the for loop over a response is left, every text item of the
\* response has been printed, in the order received; while the loop runs,
\* the text items before the current item have been printed.
C14_AllTextEmitted ==
  /\ pc = "after_for" => PrintedOf(rounds) = TextItems(response, rounds)
  /\ pc = "items" =>
        PrintedOf(rounds) = TextItems(SubSeq(response, 1, idx - 1), rounds)

----------------------------------------------------------------------------
\* Errors in the chat loop.

\* C15: an error raised while one input line is handled (a failed backend
\* request or call_tool, a failed read_resource or get_prompt) is reported
\* and chat_loop is back at its input prompt; chat_loop is left only by the
\* quit command (or by an interrupt or cancellation, which is no Exception
\* and which no handler of the line raises).
C15_NoErrorFatal ==
  /\ (last.cmd \in {"query", "execute_prompt", "get_resource"}
        /\ last.outcome \in {"raised", "error"}) => pc = "chat"
  /\ pc \in {"cleanup", "done"} => last.cmd \in {"quit", "escape"}

\* C15 witness: the query of an executed prompt has failed after a tool
\* call, and chat_loop waits for the next line.
C15_Witness ==
  /\ pc = "chat"
  /\ last.cmd = "execute_prompt" /\ last.outcome = "raised"
  /\ calls # <<>>

----------------------------------------------------------------------------
\* Sequential execution of the invocation requests.

\* Request a was received before request b.
Before(a, b) == a[1] < b[1] \/ (a[1] = b[1] /\ a[2] < b[2])

\* C16: at most one call_tool request is outstanding (so at most one on any
\* session), it is the one issued last; call_tool requests are issued in the
\* order their tool_use items were received; and when a request is issued
\* the result of every request issued before it is in the conversation state.
C16_Sequential ==
  /\ Cardinality(pending) <= 1
  /\ \A s \in Providers :
        Cardinality({i \in 1 .. Len(calls) : calls[i].id \in pending
                                              /\ calls[i].sess = s}) <= 1
  /\ pending # {} => pending = {calls[Len(calls)].id}
  /\ \A i, j \in 1 .. Len(calls) :
        i < j => /\ Before(calls[i].id, calls[j].id)
                 /\ ToolResult(calls[i].id) \in Range(messages)

\* C16 witness: the second call_tool of one response is outstanding.
C16_Witness ==
  /\ pc = "calling" /\ pending = {<<1, 2>>}
  /\ Len(calls) = 2 /\ calls[1].id = <<1, 1>>

----------------------------------------------------------------------------
\* The registry after startup, and the resource path.

\* C17: once connect_to_servers has returned, no step of the chat loop
\* (process_query, get_resource, list_prompts, execute_prompt, whatever
\* their outcome) changes the routing map, available_tools or
\* available_prompts.
C17_RegistryReadOnly == [][pc # "connect" => UNCHANGED regv]_vars

\* C17 witness: get_resource has read a URI that is no key of the routing
\* map, on the session of the fallback route.
C17_Witness ==
  /\ last.cmd = "get_resource" /\ last.sess # NoSession
  /\ ~ HasKey(sessions, last.name)

\* C19: get_resource issues no backend request, no call_tool and no
\* get_prompt: it leaves chat_loop at its input prompt with no round and no
\* call; it issues read_resource only on the session it resolved, for the
\* URI it was asked for, and issues nothing when it resolves no session.
C19_ResourceBypass ==
  last.cmd = "get_resource" =>
    /\ pc \in {"chat", "cleanup", "done"}
    /\ rounds = 0 /\ calls = <<>> /\ messages = <<>> /\ pending = {}
    /\ last.sess = ResolveResource(sessions, last.name)
    /\ last.sess # NoSession => last.arg = last.name
    /\ last.sess = NoSession => last.outcome = "not_found" /\ last.arg = <<>>

\* C19 witness: an unregistered papers:// URI was read on the session of
\* the fallback route, and the read raised.
C19_Witness ==
  /\ last.cmd = "get_resource" /\ last.name = UriPZ
  /\ last.sess # NoSession /\ last.outcome = "error"

----------------------------------------------------------------------------
\* The conversation state is append-only.

\* Role and content of a turn: an assistant turn's content is the list
\* object it refers to, as the list is now.
TurnValue(m, cs) ==
  IF m.role = "assistant"
  THEN [role |-> m.role, content |-> cs[m.ref[1]]]
  ELSE [role |-> m.role, content |-> << m.kind, m.ref, m.text >>]

\* C18: within one invocation of process_query no turn is removed, and the
\* role and the content of a turn that is in the conversation state do not
\* change, in particular not when later items of the response are handled.
C18_AppendOnly ==
  [][(InQuery /\ pc' # "cleanup") =>
       /\ Len(messages') >= Len(messages)
       /\ \A k \in 1 .. Len(messages) :
             TurnValue(messages'[k], contents') = TurnValue(messages[k], contents)
    ]_vars

----------------------------------------------------------------------------
\* Command dispatch.

\* C20: chat_loop classifies every non-empty trimmed line in this order and
\* does exactly what its class says: "quit" in any case ends the loop and
\* nothing else does; a line starting with "@" is one get_resource, of
\* papers://folders for "@papers" and of papers://<topic> for "@<topic>"; a
\* line starting with "/" is a command of chat_loop and never a query, also
\* when the command is unknown; any other line is one process_query of the
\* trimmed line.
C20_Dispatch ==
  (act # NoAct /\ Strip(line) # <<>>) =>
    LET q == Strip(line)
        IsQuit == Lower(q) = <<"quit">>
        IsAt == ~ IsQuit /\ Head(q) = "@"
        IsSlash == ~ IsQuit /\ Head(q) = "/"
    IN  /\ act.ends <=> IsQuit
        /\ IsQuit => act.calls = <<>>
        /\ IsAt =>
              act.calls =
                << Call("get_resource",
                        IF q = <<"@", "papers">> THEN <<"papers://", "folders">>
                        ELSE <<"papers://">> \o Tail(q),
                        <<>>) >>
        /\ IsSlash =>
              /\ Len(act.calls) <= 1
              /\ \A i \in 1 .. Len(act.calls) :
                    act.calls[i].op \in {"list_prompts", "execute_prompt"}
        /\ (~ IsQuit /\ ~ IsAt /\ ~ IsSlash) =>
              act.calls = << Call("process_query", q, <<>>) >>

\* C20 witness: a line with blanks around an unknown "/" command was
\* handled: it was reported and nothing was called.
C20_Witness ==
  /\ act.says = "unknown" /\ act.calls = <<>>
  /\ Head(line) = Space /\ Len(Split(line)) = 2

----------------------------------------------------------------------------
\* Termination of process_query.

\* The response being processed holds no invocation request.
TextOnly == pc \in {"items", "after_for"} /\ ~ HasToolUse(response)

\* C21: when backend requests and calls come back, a response without an
\* invocation request ends the query: once such a response is being
\* processed the query completes.  Nothing else ends the loop normally:
\* a query completes only after a response without invocation requests,
\* and after a response with one the loop goes to the next backend
\* request, whatever the number of rounds so far.
C21_ConditionalTermination ==
  /\ TextOnly ~> (pc = "chat" /\ last.outcome = "completed")
  /\ [](last.outcome = "completed" => rounds >= 1 /\ ~ HasToolUse(response))
  /\ [][(pc = "after_for" /\ has_tool_use) => pc' = "model"]_vars

\* C21 witness: every response of the query held an invocation request,
\* and the loop is about to issue one more backend request.
C21_Witness ==
  /\ pc = "model" /\ rounds = MaxItems
  /\ Len(calls) + Len(notices) = MaxItems

----------------------------------------------------------------------------
\* One assistant turn per response.

\* The positions of the assistant turns that hold the content of round r.
TurnsOf(r) ==
  {k \in 1 .. Len(messages) : messages[k].role = "assistant" /\ messages[k].ref[1] = r}

\* C22: whenever process_query is about to send the conversation state to
\* the backend, every earlier response that held an invocation request is
\* in the state as exactly one assistant turn, so every invocation request
\* occurs in exactly one assistant turn.
C22_OneAssistantTurn ==
  pc = "model" =>
    \A r \in 1 .. Len(contents) :
      HasToolUse(contents[r]) => Cardinality(TurnsOf(r)) = 1

====
